---- MODULE Spec2Model ----
(***************************************************************************)
(* Model of the virtual pet of src/pet.py: the Pet class (counters,        *)
(* tricks), the PetApp button handlers that drive it together with the     *)
(* achievement check, and the save/load path through pet_data.json.        *)
(*                                                                         *)
(* Text is modelled as a sequence of one-character strings so that         *)
(* str.strip() can be computed.  Values that travel through the save file  *)
(* are dynamically typed, so they carry a type tag (PyInt, PyStr, PyList). *)
(***************************************************************************)
EXTENDS Integers, Sequences, FiniteSets, TLC

VARIABLES
    pet,        \* PetApp.pet: the Pet object (name, hunger, energy, happiness, tricks)
    stars,      \* PetApp.stars
    store,      \* the content of SAVE_FILE (pet_data.json)
    loaded,     \* what the last load_pet() call produced
    \* history of the last handler, for stating the properties
    pre,        \* the pet when the handler started
    preStars,   \* the star count when the handler started
    mid,        \* the pet after the Pet method, before check_for_star
    lastOp,     \* which handler ran last
    result,     \* what it reported (the return value of Pet.play, the dialog shown)
    playRun,    \* successful Pet.play calls since the last Pet.sleep
    storeSaved  \* the store holds what save_pet wrote for the current pet

vars == <<pet, stars, store, loaded, pre, preStars, mid, lastOp, result, playRun, storeSaved>>

(***************************************************************************)
(* Bounds and input sets                                                   *)
(***************************************************************************)
\* the star counter of PetApp is unbounded; handlers that would award a
\* star beyond MaxStars are not explored
MaxStars == 1

\* the default of hunger, energy and happiness in Pet.__init__
DefaultCounter == 5

Counters == 0..10

\* what the user may type into the "Teach a Trick" dialog
TrickInputs ==
    { <<>>, <<" ">>, <<"s">>, <<" ", "s">>, <<"s", " ">>, <<"i">>, <<" ", " ">> }

\* what the user may do with the "Math Challenge" dialog
QuizAnswers == {"cancel", "blank", "invalid", "wrong", "correct"}

AppName == <<"R", "e", "x">>

(***************************************************************************)
(* Helpers: max, min, str.strip, membership in a list                      *)
(***************************************************************************)
Max(a, b) == IF a >= b THEN a ELSE b

Min(a, b) == IF a <= b THEN a ELSE b

IsSpace(c) == c \in {" ", "\t", "\n"}

RECURSIVE LStrip(_)
LStrip(s) ==
    IF s = <<>> THEN s
    ELSE IF IsSpace(Head(s)) THEN LStrip(Tail(s)) ELSE s

RECURSIVE RStrip(_)
RStrip(s) ==
    IF s = <<>> THEN s
    ELSE IF IsSpace(s[Len(s)]) THEN RStrip(SubSeq(s, 1, Len(s) - 1)) ELSE s

Strip(s) == RStrip(LStrip(s))

\* Python truthiness of a str: non-empty
StrTruthy(s) == s # <<>>

\* a membership test that looks at the last element only
InListLastOnly(x, l) == l # <<>> /\ l[Len(l)] = x

\* Python "x in list"
InList(x, l) == \E i \in 1..Len(l) : l[i] = x

(***************************************************************************)
(* class Pet                                                               *)
(***************************************************************************)
\* Pet(name) with the default arguments hunger=5, energy=5, happiness=5,
\* tricks=None (-> [])
NewPet(name) ==
    [name |-> name, hunger |-> DefaultCounter, energy |-> DefaultCounter,
     happiness |-> DefaultCounter, tricks |-> <<>>]

\* eat without the floor at 0
EatNoClamp(p) ==
    [p EXCEPT !.hunger = p.hunger - 3,
              !.happiness = Min(10, p.happiness + 1)]

Eat(p) ==
    [p EXCEPT !.hunger = Max(0, p.hunger - 3),
              !.happiness = Min(10, p.happiness + 1)]

\* sleep without the cap at 10
SleepNoClamp(p) ==
    [p EXCEPT !.energy = p.energy + 5]

Sleep(p) ==
    [p EXCEPT !.energy = Min(10, p.energy + 5)]

\* the return value of Pet.play
PlayReturns(p) == p.energy > 0

\* play without the energy test
PlayUnguarded(p) ==
    [p EXCEPT !.energy = Max(0, p.energy - 2),
              !.happiness = Min(10, p.happiness + 2),
              !.hunger = Min(10, p.hunger + 1)]

\* play without the floor at 0
PlayNoFloor(p) ==
    IF p.energy > 0
    THEN [p EXCEPT !.energy = p.energy - 2,
                   !.happiness = Min(10, p.happiness + 2),
                   !.hunger = Min(10, p.hunger + 1)]
    ELSE p

\* play that costs one unit of energy
PlayCostsOne(p) ==
    IF p.energy > 0
    THEN [p EXCEPT !.energy = Max(0, p.energy - 1),
                   !.happiness = Min(10, p.happiness + 2),
                   !.hunger = Min(10, p.hunger + 1)]
    ELSE p

Play(p) ==
    IF p.energy > 0
    THEN [p EXCEPT !.energy = Max(0, p.energy - 2),
                   !.happiness = Min(10, p.happiness + 2),
                   !.hunger = Min(10, p.hunger + 1)]
    ELSE p

Train(p, trick) ==
    [p EXCEPT !.tricks = Append(p.tricks, trick)]

(***************************************************************************)
(* The Pet methods called directly, as a client of the class calls them    *)
(***************************************************************************)
\* Pet.train appends whatever it is given: the list is capped for exploration
MaxTricks == 2

AppUnchanged == UNCHANGED <<stars, preStars, store, loaded, storeSaved>>

PetEat ==
    /\ pre' = pet
    /\ pet' = Eat(pet)
    /\ mid' = pet'
    /\ lastOp' = "eat"
    /\ result' = "ok"
    /\ playRun' = playRun
    /\ AppUnchanged

PetSleep ==
    /\ pre' = pet
    /\ pet' = Sleep(pet)
    /\ mid' = pet'
    /\ lastOp' = "sleep"
    /\ result' = "ok"
    /\ playRun' = 0
    /\ AppUnchanged

PetPlay ==
    /\ pre' = pet
    /\ pet' = Play(pet)
    /\ mid' = pet'
    /\ lastOp' = "play"
    /\ result' = IF PlayReturns(pet) THEN "ok" ELSE "tired"
    /\ playRun' = IF PlayReturns(pet) THEN playRun + 1 ELSE playRun
    /\ AppUnchanged

PetTrain ==
    /\ Len(pet.tricks) < MaxTricks
    /\ \E trick \in {<<"s">>, <<>>} :
          /\ pre' = pet
          /\ pet' = Train(pet, trick)
          /\ mid' = pet'
          /\ lastOp' = "train"
          /\ result' = "ok"
          /\ playRun' = playRun
          /\ AppUnchanged

(***************************************************************************)
(* class PetApp                                                            *)
(***************************************************************************)
\* hunger == 5 or energy == 5
BalancedEither(p) == p.hunger = 5 \/ p.energy = 5

Balanced(p) == p.hunger = 5 /\ p.energy = 5

\* check_for_star drawing from randint(0, 11)
CheckForStarWide(p, s, p2, s2) ==
    IF p.hunger = 5 /\ p.energy = 5
    THEN /\ s2 = s + 1
         /\ \E h \in 0..11, e \in 0..11, ha \in 0..11 :
               p2 = [p EXCEPT !.hunger = h, !.energy = e, !.happiness = ha]
    ELSE /\ s2 = s
         /\ p2 = p

\* check_for_star as a relation: from pet p and star count s to p2, s2;
\* random.randint(1, 10) is any value of 1..10
CheckForStar(p, s, p2, s2) ==
    IF Balanced(p)
    THEN /\ s2 = s + 1
         /\ \E h \in 1..10, e \in 1..10, ha \in 1..10 :
               p2 = [p EXCEPT !.hunger = h, !.energy = e, !.happiness = ha]
    ELSE /\ s2 = s
         /\ p2 = p

\* update_status: refreshes the labels (not modelled) and runs check_for_star
UpdateStatus(p, s, p2, s2) == CheckForStar(p, s, p2, s2)

\* the star counter is capped for exploration
WithinStars(p) == Balanced(p) => stars < MaxStars

\* the handlers of PetApp touch neither the save file nor the play counter
\* of the Pet-level specification
StoreUnchanged == UNCHANGED <<store, loaded, storeSaved, playRun>>

FeedPet ==
    /\ WithinStars(Eat(pet))
    /\ pre' = pet
    /\ preStars' = stars
    /\ mid' = Eat(pet)
    /\ UpdateStatus(mid', stars, pet', stars')
    /\ lastOp' = "eat"
    /\ result' = "ok"
    /\ StoreUnchanged

SleepPet ==
    /\ WithinStars(Sleep(pet))
    /\ pre' = pet
    /\ preStars' = stars
    /\ mid' = Sleep(pet)
    /\ UpdateStatus(mid', stars, pet', stars')
    /\ lastOp' = "sleep"
    /\ result' = "ok"
    /\ StoreUnchanged

PlayWithPet ==
    /\ WithinStars(Play(pet))
    /\ pre' = pet
    /\ preStars' = stars
    /\ mid' = Play(pet)
    /\ lastOp' = "play"
    /\ IF PlayReturns(pet)
       THEN /\ UpdateStatus(mid', stars, pet', stars')
            /\ result' = "ok"
       ELSE \* the "Too Tired" warning
            /\ pet' = mid'
            /\ stars' = stars
            /\ result' = "tired"
    /\ StoreUnchanged

\* a path of train_pet that teaches nothing: only a message box
TrainRejected(outcome) ==
    /\ pre' = pet
    /\ preStars' = stars
    /\ mid' = pet
    /\ pet' = pet
    /\ stars' = stars
    /\ lastOp' = "train"
    /\ result' = outcome
    /\ StoreUnchanged

\* the path of train_pet that teaches the stripped trick
TrainLearned(trick) ==
    /\ WithinStars(pet)
    /\ pre' = pet
    /\ preStars' = stars
    /\ mid' = Train(pet, trick)
    /\ UpdateStatus(mid', stars, pet', stars')
    /\ lastOp' = "train"
    /\ result' = "learned"
    /\ StoreUnchanged

\* train_pet.  The Math Challenge is abstracted to what the user does with
\* it: cancel the dialog or leave it blank ("No Answer"), type something
\* that is not a number ("Invalid Input"), answer wrongly, or answer
\* correctly; only then the Teach a Trick dialog opens and returns
\* (text, ok).  The text is not read when ok is false.
TrainPet ==
    \/ \E quiz \in QuizAnswers \ {"correct"} :
          TrainRejected(IF quiz \in {"cancel", "blank"} THEN "noanswer" ELSE quiz)
    \/ TrainRejected("notrick")
    \/ \E text \in TrickInputs :
          IF StrTruthy(Strip(text))
          THEN IF InList(Strip(text), pet.tricks)
               THEN TrainRejected("duplicate")
               ELSE TrainLearned(Strip(text))
          ELSE TrainRejected("notrick")

ShowStatus ==
    /\ WithinStars(pet)
    /\ pre' = pet
    /\ preStars' = stars
    /\ mid' = pet
    /\ UpdateStatus(mid', stars, pet', stars')
    /\ lastOp' = "status"
    /\ result' = "ok"
    /\ StoreUnchanged

(***************************************************************************)
(* Persistence: Pet.to_dict, Pet.from_dict, save_pet, load_pet             *)
(***************************************************************************)
PyNone == [type |-> "none", val |-> 0]

PyInt(n) == [type |-> "int", val |-> n]

PyStr(s) == [type |-> "str", val |-> s]

PyList(l) == [type |-> "list", val |-> l]

\* a dict is a function from its keys to values
PyDict(f) == [type |-> "dict", val |-> f]

\* Python truthiness
Truthy(v) ==
    CASE v.type = "none" -> FALSE
      [] v.type = "int"  -> v.val # 0
      [] v.type = "dict" -> DOMAIN v.val # {}
      [] OTHER           -> v.val # <<>>

\* __init__ applying "or <default>" to the counters as it does to tricks
PetInitOrDefault(name, hunger, energy, happiness, tricks) ==
    [name |-> name,
     hunger |-> IF Truthy(hunger) THEN hunger ELSE PyInt(5),
     energy |-> IF Truthy(energy) THEN energy ELSE PyInt(5),
     happiness |-> IF Truthy(happiness) THEN happiness ELSE PyInt(5),
     tricks |-> IF Truthy(tricks) THEN tricks ELSE PyList(<<>>)]

\* Pet.__init__ on dynamically typed arguments: tricks or []
PetInit(name, hunger, energy, happiness, tricks) ==
    [name |-> name, hunger |-> hunger, energy |-> energy,
     happiness |-> happiness,
     tricks |-> IF Truthy(tricks) THEN tricks ELSE PyList(<<>>)]

ToDict(p) ==
    PyDict([name |-> PyStr(p.name),
            hunger |-> PyInt(p.hunger),
            energy |-> PyInt(p.energy),
            happiness |-> PyInt(p.happiness),
            tricks |-> PyList(p.tricks)])

NoPet == PetInit(PyNone, PyNone, PyNone, PyNone, PyNone)

Returned(p) == [kind |-> "pet", pet |-> p, exc |-> "none"]

ReturnedNone == [kind |-> "none", pet |-> NoPet, exc |-> "none"]

Raised(e) == [kind |-> "raised", pet |-> NoPet, exc |-> e]

NotLoaded == [kind |-> "notloaded", pet |-> NoPet, exc |-> "none"]

\* data[key] raises TypeError on a value that is no dict (a list, a number,
\* a string, null) and KeyError on a dict without the key
CanIndex(data, key) == data.type = "dict" /\ key \in DOMAIN data.val

IndexError(data) == IF data.type = "dict" THEN "KeyError" ELSE "TypeError"

\* Pet.from_dict: the five subscripts are evaluated in order, then Pet(...)
FromDict(data) ==
    IF \A k \in {"name", "hunger", "energy", "happiness", "tricks"} : CanIndex(data, k)
    THEN Returned(PetInit(data.val["name"], data.val["hunger"], data.val["energy"],
                          data.val["happiness"], data.val["tricks"]))
    ELSE Raised(IndexError(data))

\* the states of pet_data.json
AbsentFile == [kind |-> "absent", value |-> PyNone]

\* a file whose text json.load rejects
GarbageFile == [kind |-> "garbage", value |-> PyNone]

\* a file holding the JSON document of value v
JsonFile(v) == [kind |-> "json", value |-> v]

\* load_pet: open, json.load, Pet.from_dict; except (FileNotFoundError,
\* json.JSONDecodeError) -> message box, return None
LoadPetResult(st) ==
    CASE st.kind = "absent"  -> ReturnedNone
      [] st.kind = "garbage" -> ReturnedNone
      [] OTHER               -> FromDict(st.value)

GuiUnchanged == UNCHANGED <<pet, stars, pre, preStars, mid, result, playRun>>

LoadPet ==
    /\ loaded' = LoadPetResult(store)
    /\ lastOp' = "load"
    /\ UNCHANGED <<store, storeSaved>>
    /\ GuiUnchanged

\* save_pet: json.dump(self.pet.to_dict(), f); an OSError of open() is
\* reported in a message box and leaves the file alone
SavePet ==
    /\ \E writable \in BOOLEAN :
          IF writable
          THEN /\ store' = JsonFile(ToDict(pet))
               /\ storeSaved' = TRUE
          ELSE UNCHANGED <<store, storeSaved>>
    /\ lastOp' = "save"
    /\ UNCHANGED loaded
    /\ GuiUnchanged

(***************************************************************************)
(* Specification of the running application                                *)
(***************************************************************************)
Init ==
    /\ \E h \in Counters, e \in Counters, ha \in Counters :
          pet = [NewPet(AppName) EXCEPT !.hunger = h, !.energy = e, !.happiness = ha]
    /\ stars = 0
    /\ pre = pet
    /\ preStars = 0
    /\ mid = pet
    /\ lastOp = "init"
    /\ result = "ok"
    /\ playRun = 0
    /\ store = AbsentFile
    /\ loaded = NotLoaded
    /\ storeSaved = FALSE

Next ==
    \/ FeedPet
    \/ SleepPet
    \/ PlayWithPet
    \/ TrainPet
    \/ ShowStatus

Spec == Init /\ [][Next]_vars

(***************************************************************************)
(* Specification of the Pet class on its own: any counters, the methods    *)
(* called in any order                                                     *)
(***************************************************************************)
NextPet ==
    \/ PetEat
    \/ PetSleep
    \/ PetPlay
    \/ PetTrain

SpecPet == Init /\ [][NextPet]_vars

(***************************************************************************)
(* Specification of the save file: any valid pet, any file, saved and      *)
(* loaded in any order                                                     *)
(***************************************************************************)
StoreNames == { <<>>, <<"R", "e", "x">> }

StoreCounters == {0, 5, 10}

StoreTricks == { <<>>, <<<<"s">>>>, <<<<"s">>, <<"i">>>> }

AllKeys == [name |-> PyStr(<<"R">>), hunger |-> PyInt(5), energy |-> PyInt(0),
            happiness |-> PyInt(10), tricks |-> PyList(<<>>)]

\* the dict d without the key k
Without(d, k) == [x \in DOMAIN d \ {k} |-> d[x]]

StoreFiles ==
    { AbsentFile, GarbageFile,
      \* valid JSON that is no object
      JsonFile(PyList(<<>>)), JsonFile(PyInt(3)), JsonFile(PyNone),
      \* objects with missing keys
      JsonFile(PyDict(Without(AllKeys, "tricks"))),
      JsonFile(PyDict(Without(AllKeys, "name"))),
      JsonFile(PyDict([name |-> PyStr(<<"R">>)])),
      \* objects with fields of the wrong type
      JsonFile(PyDict([AllKeys EXCEPT !.hunger = PyStr(<<"x">>)])),
      JsonFile(PyDict([AllKeys EXCEPT !.tricks = PyNone, !.name = PyInt(7)])),
      \* a well-formed record
      JsonFile(PyDict(AllKeys)) }

InitStore ==
    /\ \E n \in StoreNames, h \in StoreCounters, e \in StoreCounters,
          ha \in StoreCounters, t \in StoreTricks :
          pet = [name |-> n, hunger |-> h, energy |-> e, happiness |-> ha, tricks |-> t]
    /\ stars = 0
    /\ pre = pet
    /\ preStars = 0
    /\ mid = pet
    /\ lastOp = "init"
    /\ result = "ok"
    /\ playRun = 0
    /\ store \in StoreFiles
    /\ loaded = NotLoaded
    /\ storeSaved = FALSE

NextStore ==
    \/ SavePet
    \/ LoadPet

SpecStore == InitStore /\ [][NextStore]_vars

(***************************************************************************)
(* Properties                                                              *)
(***************************************************************************)
InRange(p) ==
    /\ p.hunger \in 0..10
    /\ p.energy \in 0..10
    /\ p.happiness \in 0..10

\* check_for_star ran in the last handler
RanCheck ==
    \/ lastOp \in {"eat", "sleep", "status"}
    \/ lastOp = "play" /\ result = "ok"
    \/ lastOp = "train" /\ result = "learned"

\* C1: from counters in [0,10], hunger, energy and happiness are in [0,10]
\* after any sequence of feed, sleep, play, train and achievement checks
\* (also between the Pet method and the achievement check).
C1_CountersInRange == InRange(pet) /\ InRange(mid)

\* a star was earned and later operations have been clamped at both ends
C1_Witness ==
    /\ stars > 0
    /\ lastOp = "sleep"
    /\ pre.energy = 8
    /\ pet.energy = 10
    /\ pet.hunger = 0

\* C2: play() with energy = 0 returns False and leaves name, hunger,
\* energy, happiness and tricks unchanged; play_with_pet leaves the star
\* count unchanged too.
C2_PlayTiredNoChange ==
    (lastOp = "play" /\ pre.energy = 0) =>
        /\ result = "tired"
        /\ mid = pre
        /\ pet = pre
        /\ stars = preStars

C2_Witness ==
    /\ lastOp = "play"
    /\ pre.energy = 0
    /\ pre.tricks # <<>>
    /\ result = "tired"

NoDuplicates(l) == \A i, j \in 1..Len(l) : l[i] = l[j] => i = j

\* C3: every element of tricks is non-empty and occurs once; a train
\* request either appends a new non-empty name at the end (learning order)
\* or is rejected and leaves tricks unchanged.
C3_TricksUnique ==
    /\ \A i \in 1..Len(pet.tricks) : pet.tricks[i] # <<>>
    /\ NoDuplicates(pet.tricks)
    /\ lastOp = "train" =>
          IF result = "learned"
          THEN /\ Len(pet.tricks) = Len(pre.tricks) + 1
               /\ SubSeq(pet.tricks, 1, Len(pre.tricks)) = pre.tricks
               /\ \A i \in 1..Len(pre.tricks) :
                     pre.tricks[i] # pet.tricks[Len(pet.tricks)]
          ELSE pet.tricks = pre.tricks

\* "sit" was taught, then a second trick, then "sit" was asked for again
C3_Witness ==
    /\ lastOp = "train"
    /\ result = "duplicate"
    /\ pet.tricks = << <<"s">>, <<"i">> >>

\* the pet p as from_dict returns it
AsLoaded(p) ==
    [name |-> PyStr(p.name), hunger |-> PyInt(p.hunger), energy |-> PyInt(p.energy),
     happiness |-> PyInt(p.happiness), tricks |-> PyList(p.tricks)]

\* C4: round trip: loading what was saved for a valid pet p returns a Pet
\* whose name, hunger, energy, happiness and tricks equal those of p.
C4_RoundTrip ==
    (lastOp = "load" /\ storeSaved) =>
        /\ loaded.kind = "pet"
        /\ loaded.pet = AsLoaded(pet)

\* a pet with a zero counter, no tricks and the empty name made the trip
C4_Witness ==
    /\ lastOp = "load"
    /\ storeSaved
    /\ pet.hunger = 0
    /\ pet.tricks = <<>>
    /\ pet.name = <<>>
    /\ loaded.kind = "pet"

\* C5: load_pet() returns a Pet or None for every state of the file; no
\* exception escapes it.
C5_LoadNeverRaises == loaded.kind # "raised"

\* C6: eat always succeeds, sets hunger to max(0, hunger-3) and happiness
\* to min(10, happiness+1), and leaves energy, tricks and name unchanged.
C6_EatEffect ==
    lastOp = "eat" =>
        /\ result = "ok"
        /\ mid = [pre EXCEPT
                    !.hunger = IF pre.hunger >= 3 THEN pre.hunger - 3 ELSE 0,
                    !.happiness = IF pre.happiness <= 9 THEN pre.happiness + 1 ELSE 10]

C6_Witness ==
    /\ lastOp = "eat"
    /\ pre.hunger = 5
    /\ mid.hunger = 2
    /\ pre.happiness = 10
    /\ mid.happiness = 10

\* C7: sleep always succeeds, sets energy to min(10, energy+5), and leaves
\* hunger, happiness, tricks and name unchanged.
C7_SleepEffect ==
    lastOp = "sleep" =>
        /\ result = "ok"
        /\ mid = [pre EXCEPT
                    !.energy = IF pre.energy <= 5 THEN pre.energy + 5 ELSE 10]

C7_Witness ==
    /\ lastOp = "sleep"
    /\ pre.energy = 8
    /\ mid.energy = 10

\* C8: play() with energy > 0 returns True, sets energy to
\* max(0, energy-2), happiness to min(10, happiness+2) and hunger to
\* min(10, hunger+1), each from the values before the call, and leaves
\* tricks and name unchanged.
C8_PlayEffect ==
    (lastOp = "play" /\ pre.energy > 0) =>
        /\ result = "ok"
        /\ mid = [pre EXCEPT
                    !.energy = IF pre.energy >= 2 THEN pre.energy - 2 ELSE 0,
                    !.happiness = IF pre.happiness <= 8 THEN pre.happiness + 2 ELSE 10,
                    !.hunger = IF pre.hunger <= 9 THEN pre.hunger + 1 ELSE 10]

C8_Witness ==
    /\ lastOp = "play"
    /\ pre.energy = 1
    /\ mid.energy = 0
    /\ pre.hunger = 10
    /\ result = "ok"

\* C9: whenever check_for_star runs, the star count grows by exactly 1 and
\* the three counters are replaced by values of 1..10 if hunger = 5 and
\* energy = 5 at that moment, and the star count and the counters are left
\* unchanged otherwise; the star count never decreases; a default pet
\* (5,5,5) earns a star at the first Show Status.
C9_StarRule ==
    /\ stars >= preStars
    /\ RanCheck =>
          IF mid.hunger = 5 /\ mid.energy = 5
          THEN /\ stars = preStars + 1
               /\ pet.hunger \in 1..10
               /\ pet.energy \in 1..10
               /\ pet.happiness \in 1..10
               /\ pet.name = mid.name
               /\ pet.tricks = mid.tricks
          ELSE /\ stars = preStars
               /\ pet = mid
    /\ ~RanCheck => (stars = preStars /\ pet = mid)
    /\ (lastOp = "status" /\ pre = NewPet(AppName)) => stars = preStars + 1

C9_Witness ==
    /\ lastOp = "status"
    /\ pre = NewPet(AppName)
    /\ preStars = 0
    /\ stars = 1
    /\ pet.hunger # 5

\* C10: in a run of Pet.play calls without a sleep at most 5 return True;
\* a play that returns False leaves energy 0, and a play at energy 0
\* returns False and changes nothing, so every later play of the run fails
\* too; a sleep leaves energy above 0, where play returns True.
C10_PlayExhausts ==
    /\ playRun <= 5
    /\ (lastOp = "play" /\ result = "tired") => (pet.energy = 0 /\ pet = pre)
    /\ (lastOp = "play" /\ pre.energy = 0) => result = "tired"
    /\ lastOp = "sleep" => pet.energy > 0
    /\ (lastOp = "play" /\ pre.energy > 0) => result = "ok"

\* five plays returned True in a row and the sixth returned False
C10_Witness ==
    /\ playRun = 5
    /\ lastOp = "play"
    /\ result = "tired"

====
